---- MODULE Spec2Model ----
(***************************************************************************)
(* Mailing lifecycle and dispatch engine of Message_AutoSend.              *)
(*                                                                         *)
(*   mailings/models.py    Mailing.compute_status / refresh_status / save  *)
(*   mailings/services.py  send_mailing (the send loop)                    *)
(*   mailings/tasks.py     the scheduler tick and its cache lock           *)
(*   mailings/views.py     the request handlers that write a Mailing       *)
(*   mailings/admin.py     the admin status actions                        *)
(*                                                                         *)
(* Time is in seconds.  A timestamp is a natural number, NULL is the SQL   *)
(* NULL of Mailing.last_sent_at.                                           *)
(***************************************************************************)
EXTENDS Integers, Sequences, FiniteSets, TLC

VARIABLES
    now,        \* the clock, timezone.now()
    db,         \* table Mailing: mailing id -> stored row
    logs,       \* table MailingLog: a set of rows
    attempts,   \* table MailingAttempt: a set of rows
    transport,  \* the messages django.core.mail.send_mail was called with
    runs,       \* number of send_mailing invocations started so far
    call,       \* the send_mailing invocations in flight, one slot per caller
    cache,      \* the cache entry LOCK_KEY: absent, or the time it expires
    tick,       \* the run_due_mailings invocations, one slot per scheduler process
    fn          \* inputs and result of the pure functions under test

vars == <<now, db, logs, attempts, transport, runs, call, cache, tick, fn>>

(***************************************************************************)
(* Bounds of the model.                                                    *)
(***************************************************************************)
MaxMinutes == 3       \* the clock runs from 0 to MaxMinutes * 60 seconds
NumRecipients == 3    \* recipients 1..NumRecipients exist
MaxRuns == 1          \* send_mailing is invoked at most MaxRuns times

Mids == {1, 2}                \* primary keys of Mailing
Callers == {"u1", "u2"}       \* concurrent request / command handlers
Procs == {"p1", "p2"}         \* scheduler processes

(***************************************************************************)
(* Program constants.                                                      *)
(***************************************************************************)
LOCK_TTL == 55
MAILINGS_MIN_REPEAT_MINUTES == 5
interval == 60

NULL == 0 - 1
Horizon == MaxMinutes * 60
Times == {k * 60 : k \in 0..MaxMinutes}

CREATED == "CREATED"
RUNNING == "RUNNING"
FINISHED == "FINISHED"
MailingStatus == {CREATED, RUNNING, FINISHED}

SUCCESS == "SUCCESS"
FAIL == "FAIL"

(***************************************************************************)
(* mailings/models.py                                                      *)
(***************************************************************************)

\* Mailing.is_sent_at_least_once
is_sent_at_least_once(m) == m.last_sent_at # NULL

\* Mailing.compute_status, on the object m at time t.  start_at and end_at
\* are non-null DateTimeFields and a datetime is always truthy, so the
\* "self.end_at and ..." guards are true.
compute_status_open_end(m, t) ==
    IF t > m.end_at THEN FINISHED
    ELSE IF is_sent_at_least_once(m) \/ (m.start_at <= t /\ t < m.end_at) THEN RUNNING
    ELSE CREATED

\* Mailing.compute_status with the send history looked at before the end.
compute_status_sent_first(m, t) ==
    IF is_sent_at_least_once(m) THEN RUNNING
    ELSE IF t >= m.end_at THEN FINISHED
    ELSE IF m.start_at <= t /\ t < m.end_at THEN RUNNING
    ELSE CREATED

compute_status(m, t) ==
    IF t >= m.end_at THEN FINISHED
    ELSE IF is_sent_at_least_once(m) \/ (m.start_at <= t /\ t < m.end_at)
         THEN RUNNING
         ELSE CREATED

\* Mailing.refresh_status: the object after the call.
refresh_status_obj(m, t) ==
    IF m.status # compute_status(m, t)
    THEN [m EXCEPT !.status = compute_status(m, t)]
    ELSE m

\* Mailing.refresh_status(save=True) with a full save() of the object in
\* place of save(update_fields=...).
refresh_status_db_full(d, m, t) ==
    IF m.status # compute_status(m, t)
    THEN [d EXCEPT ![m.id].status = compute_status(m, t),
                   ![m.id].start_at = m.start_at,
                   ![m.id].end_at = m.end_at,
                   ![m.id].last_sent_at = m.last_sent_at]
    ELSE d

\* Mailing.refresh_status(save=True): the table after the call.  Only the
\* columns status and updated_at are written, and only when the status of
\* the object changed.
refresh_status_db(d, m, t) ==
    IF m.status # compute_status(m, t)
    THEN [d EXCEPT ![m.id].status = compute_status(m, t)]
    ELSE d

\* The columns Mailing.refresh_status(save) writes for the object m.
update_fields(m, t, save) ==
    IF m.status # compute_status(m, t) /\ save THEN {"status", "updated_at"} ELSE {}

\* Mailing.clean without the window check.
clean_ok_unchecked(start_at, end_at) == TRUE

\* Mailing.clean: the window check of full_clean().
clean_ok(start_at, end_at) == ~(end_at <= start_at)

\* MailingQuerySet.with_stats for the mailing id over the tables L
\* (MailingLog) and A (MailingAttempt).  annotate() with Count over the two
\* reverse relations compiles to one SELECT that LEFT OUTER JOINs both tables
\* to the mailing and groups by it; Count(rel, filter=Q(rel__status=s))
\* counts the joined rows whose rel row is not null and has status s.  A
\* side with no row contributes one all-null row.
NullRow == [status |-> "NULL"]

joined(L, A, id) ==
    LET ls == {l \in L : l.mailing = id}
        as == {a \in A : a.mailing = id}
    IN  (IF ls = {} THEN {NullRow} ELSE ls) \X (IF as = {} THEN {NullRow} ELSE as)

with_stats(L, A, id) ==
    LET j == joined(L, A, id)
    IN  [sent_messages |-> Cardinality({r \in j : r[1].status = "SENT"}),
         failed_messages |-> Cardinality({r \in j : r[1].status = "ERROR"}),
         dry_run_messages |-> Cardinality({r \in j : r[1].status = "DRY_RUN"}),
         attempt_success |-> Cardinality({r \in j : r[2].status = "SUCCESS"}),
         attempt_fail |-> Cardinality({r \in j : r[2].status = "FAIL"})]

NoStats ==
    [sent_messages |-> 0, failed_messages |-> 0, dry_run_messages |-> 0,
     attempt_success |-> 0, attempt_fail |-> 0]

(***************************************************************************)
(* Rows and objects.                                                       *)
(***************************************************************************)

\* A slot of table Mailing that holds no row.
NoRow ==
    [present |-> FALSE, start_at |-> 0, end_at |-> 0, status |-> CREATED,
     last_sent_at |-> NULL, recipients |-> <<>>]

\* Mailing.objects.get(pk=id): the row as a Python object.
load(d, id) ==
    [id |-> id, start_at |-> d[id].start_at, end_at |-> d[id].end_at,
     status |-> d[id].status, last_sent_at |-> d[id].last_sent_at]

NoObj == [id |-> 0, start_at |-> 0, end_at |-> 0, status |-> CREATED, last_sent_at |-> NULL]
NoRet == [total |-> NULL, sent |-> NULL, skipped |-> NULL]

IdleCall ==
    [pc |-> "idle", entry |-> "none", dry_run |-> FALSE, obj |-> NoObj,
     emails |-> <<>>, i |-> 0, sent |-> 0, skipped |-> 0, run |-> 0,
     attempt |-> 0, ret |-> NoRet]

\* The rows of one invocation of send_mailing.  A row of MailingLog is keyed
\* by (run, n): the n-th row the invocation wrote; a row of MailingAttempt by
\* its primary key pk.  run is the invocation that wrote the row.
LogsOf(run) == {l \in logs : l.run = run}
AttemptsOf(run) == {a \in attempts : a.run = run}
CallsOf(run) == {x \in transport : x.run = run}

\* What the transport does with one message: it accepts it, it reports 0
\* accepted recipients, or it raises.
Outcomes == {"accepted", "zero", "raise"}

(***************************************************************************)
(* mailings/services.py                                                    *)
(***************************************************************************)

\* _iter_emails: the non-empty addresses of the mailing's recipients, in the
\* order of Recipient.Meta.ordering.  Recipient r has the address r; 0 is the
\* empty address.
_iter_emails(recipients) == SelectSeq(recipients, LAMBDA r : r # 0)

\* The MailingLog row send_mailing writes for one recipient.
log_row(run, n, id, email, status, detail) ==
    [run |-> run, n |-> n, mailing |-> id, recipient |-> email,
     status |-> status, detail |-> detail]

\* send_one without the handler of lines 123-132: what send_mail raises
\* leaves the loop body.
send_one_uncaught(outcome) ==
    CASE outcome = "accepted" ->
           [sent |-> 1, skipped |-> 0, status |-> "SENT", detail |-> "smtp", escapes |-> FALSE]
      [] outcome = "zero" ->
           [sent |-> 0, skipped |-> 1, status |-> "ERROR", detail |-> "returned 0", escapes |-> FALSE]
      [] outcome = "raise" ->
           [sent |-> 0, skipped |-> 0, status |-> "ERROR", detail |-> "exception", escapes |-> TRUE]

\* One pass of the loop body for a real send (lines 93-132), given what
\* send_mail did: the counters' increments, the log row's status and detail,
\* and whether an exception leaves the loop body.
send_one(outcome) ==
    CASE outcome = "accepted" ->
           [sent |-> 1, skipped |-> 0, status |-> "SENT", detail |-> "smtp", escapes |-> FALSE]
      [] outcome = "zero" ->
           [sent |-> 0, skipped |-> 1, status |-> "ERROR", detail |-> "returned 0", escapes |-> FALSE]
      [] outcome = "raise" ->
           [sent |-> 0, skipped |-> 1, status |-> "ERROR", detail |-> "exception", escapes |-> FALSE]

\* One pass of the loop body in a dry run (lines 80-91).
dry_one ==
    [sent |-> 0, skipped |-> 1, status |-> "DRY_RUN", detail |-> "dry-run", escapes |-> FALSE]

\* calls_transport without the dry_run branch of line 80.
calls_transport_always(dry_run) == TRUE

\* Whether the loop body calls send_mail (lines 80, 95).
calls_transport(dry_run) == ~dry_run

\* The attempt row created without a response text.
AttemptBlank == [kind |-> "", total |-> NULL, sent |-> NULL, skipped |-> NULL]

\* server_response="attempt started"
AttemptStarted == [kind |-> "attempt started", total |-> NULL, sent |-> NULL, skipped |-> NULL]
\* server_response="fatal error ..."
FatalError == [kind |-> "fatal error", total |-> NULL, sent |-> NULL, skipped |-> NULL]

\* The final state of the attempt row, lines 134-146.
attempt_final(dry_run, total, sent, skipped) ==
    IF dry_run
    THEN [status |-> SUCCESS,
          response |-> [kind |-> "dry-run", total |-> total, sent |-> NULL, skipped |-> skipped]]
    ELSE IF sent > 0
         THEN [status |-> SUCCESS,
               response |-> [kind |-> "sent", total |-> NULL, sent |-> sent, skipped |-> skipped]]
         ELSE [status |-> FAIL,
               response |-> [kind |-> "no real sends", total |-> NULL, sent |-> NULL, skipped |-> skipped]]

\* attempt_save that writes nothing: the placeholder row stays.
attempt_save_skipped(tbl, pk, status, response) == tbl

\* The attempt written through an UPDATE with no WHERE clause.
attempt_save_all(tbl, pk, status, response) ==
    {[a EXCEPT !.status = status, !.response = response] : a \in tbl}

\* attempt.save(update_fields=["status", "server_response"])
attempt_save(tbl, pk, status, response) ==
    {IF a.pk = pk THEN [a EXCEPT !.status = status, !.response = response] ELSE a : a \in tbl}

\* The object after lines 139-143 of a real run: last_sent_at is stamped on
\* the object and refresh_status recomputes its status.
stamp_obj(m, dry_run, sent, t) ==
    IF ~dry_run /\ sent > 0
    THEN refresh_status_obj([m EXCEPT !.last_sent_at = t], t)
    ELSE m

\* The table after lines 139-143: refresh_status(save=True) on the stamped
\* object writes the status column, when it changed, and nothing else.
stamp_db(d, m, dry_run, sent, t) ==
    IF ~dry_run /\ sent > 0
    THEN refresh_status_db(d, [m EXCEPT !.last_sent_at = t], t)
    ELSE d

\* send_mailing up to the try block (lines 49-76): resolve the recipients,
\* create the attempt row.
SendStartWithin(limit, c, id, dry_run, entry) ==
    /\ call[c].pc = "idle"
    /\ db[id].present
    /\ runs < limit
    /\ runs' = runs + 1
    /\ attempts' = attempts \cup
           {[pk |-> Cardinality(attempts) + 1, run |-> runs + 1, mailing |-> id,
             status |-> FAIL, response |-> AttemptStarted]}
    /\ call' = [call EXCEPT ![c] =
           [pc |-> "loop", entry |-> entry, dry_run |-> dry_run, obj |-> load(db, id),
            emails |-> _iter_emails(db[id].recipients), i |-> 1, sent |-> 0,
            skipped |-> 0, run |-> runs + 1, attempt |-> Cardinality(attempts) + 1,
            ret |-> NoRet]]
    /\ UNCHANGED <<now, db, logs, transport, cache, tick, fn>>

SendStart(c, id, dry_run, entry) == SendStartWithin(MaxRuns, c, id, dry_run, entry)

\* One iteration of the loop, lines 79-132; when an exception leaves the
\* loop body, the handler of lines 161-170.
SendStep(c) ==
    /\ call[c].pc = "loop"
    /\ call[c].i <= Len(call[c].emails)
    /\ LET k == call[c]
           email == k.emails[k.i]
       IN  \E outcome \in (IF calls_transport(k.dry_run) THEN Outcomes ELSE {"none"}) :
             LET r == IF k.dry_run THEN dry_one ELSE send_one(outcome)
             IN  /\ transport' =
                        IF calls_transport(k.dry_run)
                        THEN transport \cup
                               {[run |-> k.run, n |-> Cardinality(CallsOf(k.run)) + 1,
                                 to |-> email, result |-> outcome]}
                        ELSE transport
                 /\ IF r.escapes
                    THEN /\ attempts' = attempt_save(attempts, k.attempt, FAIL, FatalError)
                         /\ call' = [call EXCEPT ![c].pc = "raised"]
                         /\ logs' = logs
                    ELSE /\ logs' = logs \cup
                               {log_row(k.run, Cardinality(LogsOf(k.run)) + 1,
                                        k.obj.id, email, r.status, r.detail)}
                         /\ call' = [call EXCEPT ![c].i = k.i + 1,
                                                 ![c].sent = k.sent + r.sent,
                                                 ![c].skipped = k.skipped + r.skipped]
                         /\ attempts' = attempts
    /\ UNCHANGED <<now, db, runs, cache, tick, fn>>

\* After the loop, lines 134-159: finalize the attempt row, stamp the
\* mailing on a real success, return the counters.
SendFinish(c) ==
    /\ call[c].pc = "loop"
    /\ call[c].i > Len(call[c].emails)
    /\ LET k == call[c]
           total == Len(k.emails)
           fin == attempt_final(k.dry_run, total, k.sent, k.skipped)
       IN  /\ db' = stamp_db(db, k.obj, k.dry_run, k.sent, now)
           /\ attempts' = attempt_save(attempts, k.attempt, fin.status, fin.response)
           /\ call' = [call EXCEPT ![c].pc = "returned",
                                   ![c].obj = stamp_obj(k.obj, k.dry_run, k.sent, now),
                                   ![c].ret = [total |-> total, sent |-> k.sent,
                                               skipped |-> k.skipped]]
    /\ UNCHANGED <<now, logs, transport, runs, cache, tick, fn>>

(***************************************************************************)
(* mailings/services.py when the database refuses a write.  Each INSERT or  *)
(* UPDATE of send_mailing may raise; whether the next one raises too is     *)
(* open.                                                                    *)
(***************************************************************************)

\* The handler of lines 161-170 without its attempt.save.
fatal_handler_silent(tbl, pk, ok) == tbl

\* The handler of lines 161-170: the attempt row is set to FAIL with the
\* generic response; when this save raises too (ok false) the inner except
\* swallows it.  The exception is then re-raised.
fatal_handler(tbl, pk, ok) ==
    IF ok THEN attempt_save(tbl, pk, FAIL, FatalError) ELSE tbl

\* Where a call that raised stands: after the handler wrote the row, after
\* the handler's write failed, or before there was an attempt row.
raised_pc(ok) == IF ok THEN "raised" ELSE "raised_unmarked"

RaisedPcs == {"raised", "raised_unmarked", "raised_early"}

\* MailingAttempt.objects.create (line 70) raises: it stands before the try
\* block, so the exception leaves send_mailing with nothing written.
SendStartFails(c, id, dry_run, entry) ==
    /\ call[c].pc = "idle"
    /\ db[id].present
    /\ runs < MaxRuns
    /\ runs' = runs + 1
    /\ call' = [call EXCEPT ![c] =
           [IdleCall EXCEPT !.pc = "raised_early", !.entry = entry, !.dry_run = dry_run,
                            !.obj = load(db, id),
                            !.emails = _iter_emails(db[id].recipients),
                            !.run = runs + 1]]
    /\ UNCHANGED <<now, db, logs, attempts, transport, cache, tick, fn>>

\* The loop body for a real send when the MailingLog INSERT that follows
\* send_mail (lines 104, 114) raises: the counter of the outcome is already
\* incremented, the handler of line 123 adds one to skipped and writes the
\* ERROR row of line 125.
send_one_log_fails(outcome) ==
    CASE outcome = "accepted" ->
           [sent |-> 1, skipped |-> 1, status |-> "ERROR", detail |-> "exception"]
      [] outcome = "zero" ->
           [sent |-> 0, skipped |-> 2, status |-> "ERROR", detail |-> "exception"]
      [] outcome = "raise" ->
           [sent |-> 0, skipped |-> 1, status |-> "ERROR", detail |-> "exception"]

\* One iteration of the loop in which a MailingLog INSERT raises.  In a dry
\* run the INSERT of line 81 is outside the inner try: fatal.  In a real run
\* the INSERT of the inner try is caught at line 123 and the INSERT of line
\* 125 is tried (when send_mail raised, that one is the first); if it goes
\* through (retry_ok) the loop goes on, if not the exception is fatal.
SendStepLogFails(c, retry_ok, handler_ok) ==
    /\ call[c].pc = "loop"
    /\ call[c].i <= Len(call[c].emails)
    /\ LET k == call[c]
           email == k.emails[k.i]
       IN  \E outcome \in (IF calls_transport(k.dry_run) THEN Outcomes ELSE {"none"}) :
             LET r == send_one_log_fails(outcome)
                 absorbed == calls_transport(k.dry_run) /\ outcome # "raise" /\ retry_ok
             IN  /\ transport' =
                        IF calls_transport(k.dry_run)
                        THEN transport \cup
                               {[run |-> k.run, n |-> Cardinality(CallsOf(k.run)) + 1,
                                 to |-> email, result |-> outcome]}
                        ELSE transport
                 /\ IF absorbed
                    THEN /\ logs' = logs \cup
                               {log_row(k.run, Cardinality(LogsOf(k.run)) + 1,
                                        k.obj.id, email, r.status, r.detail)}
                         /\ call' = [call EXCEPT ![c].i = k.i + 1,
                                                 ![c].sent = k.sent + r.sent,
                                                 ![c].skipped = k.skipped + r.skipped]
                         /\ attempts' = attempts
                    ELSE /\ attempts' = fatal_handler(attempts, k.attempt, handler_ok)
                         /\ call' = [call EXCEPT ![c].pc = raised_pc(handler_ok)]
                         /\ logs' = logs
    /\ UNCHANGED <<now, db, runs, cache, tick, fn>>

\* After the loop, a write raises: refresh_status's UPDATE of the mailing
\* (line 143, where = "mailing") or attempt.save (line 148, where =
\* "attempt", the mailing already written).  Both are inside the try block:
\* fatal.
SendFinishFails(c, where, handler_ok) ==
    /\ call[c].pc = "loop"
    /\ call[c].i > Len(call[c].emails)
    /\ LET k == call[c]
       IN  /\ where = "mailing" =>
                 stamp_db(db, k.obj, k.dry_run, k.sent, now) # db
           /\ db' = IF where = "attempt"
                    THEN stamp_db(db, k.obj, k.dry_run, k.sent, now)
                    ELSE db
           /\ attempts' = fatal_handler(attempts, k.attempt, handler_ok)
           /\ call' = [call EXCEPT ![c].pc = raised_pc(handler_ok),
                                   ![c].obj = stamp_obj(k.obj, k.dry_run, k.sent, now)]
    /\ UNCHANGED <<now, logs, transport, runs, cache, tick, fn>>

\* The caller of a send_mailing that raised: the view answers 500, the
\* command ends with the traceback; nothing is written.
CallerFails(c) ==
    /\ call[c].pc \in RaisedPcs
    /\ call' = [call EXCEPT ![c] = IdleCall]
    /\ UNCHANGED <<now, db, logs, attempts, transport, runs, cache, tick, fn>>

(***************************************************************************)
(* mailings/views.py, mailings/management/commands/send_mailing.py         *)
(***************************************************************************)

\* MailingSendView.post / mailing_send after send_mailing returned:
\* mailing.refresh_status(save=True), then the response.
ViewRefresh(c) ==
    /\ call[c].pc = "returned"
    /\ call[c].entry = "view"
    /\ db' = refresh_status_db(db, call[c].obj, now)
    /\ call' = [call EXCEPT ![c] = IdleCall]
    /\ UNCHANGED <<now, logs, attempts, transport, runs, cache, tick, fn>>

\* Command.handle of send_mailing (and admin _send_queryset) after
\* send_mailing returned: the result is reported, nothing is written.
CommandDone(c) ==
    /\ call[c].pc = "returned"
    /\ call[c].entry = "command"
    /\ call' = [call EXCEPT ![c] = IdleCall]
    /\ UNCHANGED <<now, db, logs, attempts, transport, runs, cache, tick, fn>>

\* The window checks of MailingForm.clean, at time t.
form_clean_ok(start_at, end_at, t) ==
    /\ ~(end_at <= start_at)
    /\ ~(end_at <= t)

\* The primary key the next INSERT into Mailing gets.
next_pk(d) == CHOOSE id \in Mids : ~d[id].present /\ \A j \in Mids : ~d[j].present => id <= j

\* Mailing.save() without the status synchronisation of line 198.
save_row_unsynced(m, recipients, t) ==
    [present |-> TRUE, start_at |-> m.start_at, end_at |-> m.end_at,
     status |-> m.status, last_sent_at |-> m.last_sent_at,
     recipients |-> recipients]

\* Mailing.save() of the object m at time t, as a full INSERT or UPDATE:
\* full_clean() has passed, the status is recomputed, every column is written.
save_row(m, recipients, t) ==
    [present |-> TRUE, start_at |-> m.start_at, end_at |-> m.end_at,
     status |-> compute_status(m, t), last_sent_at |-> m.last_sent_at,
     recipients |-> recipients]

\* MailingCreateView with a form that validates: obj.save() computes the
\* status and inserts; the refresh_status that follows finds it unchanged.
MailingCreate(start_at, end_at, recipients) ==
    /\ \E id \in Mids : ~db[id].present
    /\ form_clean_ok(start_at, end_at, now)
    /\ clean_ok(start_at, end_at)
    /\ LET id == next_pk(db)
           obj == [id |-> id, start_at |-> start_at, end_at |-> end_at,
                   status |-> CREATED, last_sent_at |-> NULL]
       IN  db' = [db EXCEPT ![id] = save_row(obj, recipients, now)]
    /\ UNCHANGED <<now, logs, attempts, transport, runs, call, cache, tick, fn>>

\* MailingUpdateView with a form that validates: form.save() runs
\* Mailing.save() on the stored object with the new window; the
\* refresh_status that follows finds the status unchanged.
MailingUpdate(id, start_at, end_at) ==
    /\ db[id].present
    /\ form_clean_ok(start_at, end_at, now)
    /\ clean_ok(start_at, end_at)
    /\ LET obj == [load(db, id) EXCEPT !.start_at = start_at, !.end_at = end_at]
       IN  db' = [db EXCEPT ![id] = save_row(obj, db[id].recipients, now)]
    /\ UNCHANGED <<now, logs, attempts, transport, runs, call, cache, tick, fn>>

\* MailingDisableView.post: status = FINISHED on the loaded object, then
\* Mailing.save(update_fields=["status", "updated_at"]), which runs
\* full_clean(), recomputes the status and writes the status column.
disable_post(d, id, t) ==
    LET obj == [load(d, id) EXCEPT !.status = FINISHED]
    IN  [d EXCEPT ![id].status = compute_status(obj, t)]

MailingDisable(id) ==
    /\ db[id].present
    /\ clean_ok(db[id].start_at, db[id].end_at)
    /\ db' = disable_post(db, id, now)
    /\ UNCHANGED <<now, logs, attempts, transport, runs, call, cache, tick, fn>>

(***************************************************************************)
(* mailings/admin.py                                                       *)
(***************************************************************************)

\* start_mailings / finish_mailings / reset_mailings_to_created on the
\* selection S: queryset.update(status=st), one UPDATE that bypasses save().
AdminSetStatus(S, st) ==
    /\ S # {}
    /\ \A id \in S : db[id].present
    /\ db' = [id \in Mids |-> IF id \in S THEN [db[id] EXCEPT !.status = st] ELSE db[id]]
    /\ UNCHANGED <<now, logs, attempts, transport, runs, call, cache, tick, fn>>

\* MailingAdmin.recompute_status on the selection S: refresh_status(save=True)
\* on each selected row.
recompute_status(S) ==
    /\ S # {}
    /\ \A id \in S : db[id].present
    /\ db' = [id \in Mids |->
                 IF id \in S THEN refresh_status_db(db, load(db, id), now)[id] ELSE db[id]]
    /\ UNCHANGED <<now, logs, attempts, transport, runs, call, cache, tick, fn>>

\* The clock.
Advance(d) ==
    /\ now + d <= Horizon
    /\ now' = now + d
    /\ UNCHANGED <<db, logs, attempts, transport, runs, call, cache, tick, fn>>

(***************************************************************************)
(* mailings/tasks.py                                                       *)
(***************************************************************************)

\* The cache entry LOCK_KEY is NULL when absent and otherwise holds the time
\* at which it expires; an expired entry is as good as absent.
cache_has(entry, t) == entry # NULL /\ t < entry

\* _acquire_lock with cache.set in place of cache.add: the key is written
\* whether or not it is there.
_acquire_lock_set(entry, t) == [ok |-> TRUE, entry |-> t + LOCK_TTL]

\* _acquire_lock that renews the key's TTL also when the key is there.
_acquire_lock_touch(entry, t) == [ok |-> ~cache_has(entry, t), entry |-> t + LOCK_TTL]

\* _acquire_lock: cache.add(LOCK_KEY, "1", timeout=LOCK_TTL) is atomic; it
\* stores the key and returns True only if the key is not there.
_acquire_lock(entry, t) ==
    IF cache_has(entry, t)
    THEN [ok |-> FALSE, entry |-> entry]
    ELSE [ok |-> TRUE, entry |-> t + LOCK_TTL]

\* _release_lock that leaves the key in the cache.
_release_lock_kept(entry) == entry

\* _release_lock: cache.delete(LOCK_KEY), whoever stored the key.
_release_lock(entry) == NULL

\* due_filter without status__in=[CREATED, RUNNING].
due_filter_any_status(r, t) ==
    /\ r.present
    /\ r.start_at <= t
    /\ r.end_at >= t
    /\ (r.last_sent_at = NULL \/ r.last_sent_at <= t - MAILINGS_MIN_REPEAT_MINUTES * 60)

\* due_filter without end_at__gte=now.
due_filter_no_end(r, t) ==
    /\ r.present
    /\ r.start_at <= t
    /\ r.status \in {CREATED, RUNNING}
    /\ (r.last_sent_at = NULL \/ r.last_sent_at <= t - MAILINGS_MIN_REPEAT_MINUTES * 60)

\* The WHERE clause that lines 37-53 of due_mailings_queryset spell out, for
\* the stored row r at time t.
due_filter(r, t) ==
    /\ r.present
    /\ r.start_at <= t
    /\ r.end_at >= t
    /\ r.status \in {CREATED, RUNNING}
    /\ (r.last_sent_at = NULL \/ r.last_sent_at <= t - MAILINGS_MIN_REPEAT_MINUTES * 60)

\* The names bound in module mailings.tasks (lines 3-11): Q is not among
\* them (django.db.models.Q is not imported).
TasksGlobals == {"timedelta", "Iterable", "settings", "cache", "timezone",
                 "Mailing", "MailingStatus", "send_mailing"}

\* due_mailings_queryset at time t: the first filter is built, then line 50
\* evaluates the name Q, which raises NameError when Q is not bound.
due_mailings_queryset(d, t) ==
    IF "Q" \in TasksGlobals
    THEN [raised |-> "none", ids |-> {id \in Mids : due_filter(d[id], t)}]
    ELSE [raised |-> "NameError", ids |-> {}]

\* The keyword parameters of send_mailing (services.py line 35).
SendMailingKwargs == {"user", "dry_run"}

\* The try block of run_due_mailings, lines 68-75, at time t: what it raises
\* and the value it returns when it raises nothing.  The first due mailing is
\* passed to send_mailing with the keyword triggered_by, which send_mailing
\* does not take: TypeError.
run_due_body(d, t) ==
    LET q == due_mailings_queryset(d, t)
    IN  IF q.raised # "none" THEN [raised |-> q.raised, processed |-> 0]
        ELSE IF q.ids # {} /\ ~("triggered_by" \in SendMailingKwargs)
             THEN [raised |-> "TypeError", processed |-> 0]
             ELSE [raised |-> "none", processed |-> 0]

\* A scheduler process: the position of its job (pc, ret, raised, at), the
\* state of the process itself (proc) and the position its job had when a
\* signal arrived (sig).
NoTick ==
    [pc |-> "idle", ret |-> NULL, raised |-> "none", at |-> NULL,
     proc |-> "running", sig |-> "none"]

\* A scheduler job fires, or the one-shot command send_due_mailings runs:
\* run_due_mailings is called.
TickStart(p) ==
    /\ tick[p].pc = "idle"
    /\ tick[p].proc = "running"
    /\ tick' = [tick EXCEPT ![p] = [NoTick EXCEPT !.pc = "start"]]
    /\ UNCHANGED <<now, db, logs, attempts, transport, runs, call, cache, fn>>

\* run_due_mailings lines 63-67: try to take the lock; return 0 without it.
\* at records the time of the attempt.
TickAcquire(p) ==
    /\ tick[p].pc = "start"
    /\ LET a == _acquire_lock(cache, now)
       IN  /\ cache' = a.entry
           /\ tick' = [tick EXCEPT ![p] =
                  IF a.ok
                  THEN [tick[p] EXCEPT !.pc = "scan", !.ret = NULL, !.raised = "none", !.at = now]
                  ELSE [tick[p] EXCEPT !.pc = "idle", !.ret = 0, !.raised = "none", !.at = now]]
    /\ UNCHANGED <<now, db, logs, attempts, transport, runs, call, fn>>

\* run_due_mailings lines 68-75: scan and dispatch.
TickScan(p) ==
    /\ tick[p].pc = "scan"
    /\ LET b == run_due_body(db, now)
       IN  tick' = [tick EXCEPT ![p].pc = "finally",
                                ![p].raised = b.raised,
                                ![p].ret = IF b.raised = "none" THEN b.processed ELSE NULL]
    /\ UNCHANGED <<now, db, logs, attempts, transport, runs, call, cache, fn>>

\* run_due_mailings lines 76-77: the finally clause, then the return or the
\* propagation of the exception.
TickRelease(p) ==
    /\ tick[p].pc = "finally"
    /\ cache' = _release_lock(cache)
    /\ tick' = [tick EXCEPT ![p].pc = "idle"]
    /\ UNCHANGED <<now, db, logs, attempts, transport, runs, call, fn>>

\* The process exits while its job is still running: the worker thread is
\* not waited for.
exit_ready_any(pc) == TRUE

\* sys.exit(0) in the main thread ends the process once the interpreter has
\* joined the executor's worker thread: a job that is running returns first.
exit_ready(pc) == pc = "idle"

\* run_scheduler lines 126-136: SIGINT or SIGTERM arrives.  The handler calls
\* scheduler.shutdown(wait=False), after which no job is started, and
\* sys.exit(0).
Signal(p) ==
    /\ tick[p].proc = "running"
    /\ tick' = [tick EXCEPT ![p].proc = "stopping", ![p].sig = tick[p].pc]
    /\ UNCHANGED <<now, db, logs, attempts, transport, runs, call, cache, fn>>

\* The process is gone.
Exit(p) ==
    /\ tick[p].proc = "stopping"
    /\ exit_ready(tick[p].pc)
    /\ tick' = [tick EXCEPT ![p].proc = "exited"]
    /\ UNCHANGED <<now, db, logs, attempts, transport, runs, call, cache, fn>>

(***************************************************************************)
(* Spec: the dispatch engine.  Mailings are created through the form with  *)
(* the window SendWindows and recipients 1..NumRecipients; one handler at  *)
(* a time invokes send_mailing.                                            *)
(***************************************************************************)
NoFn ==
    [op |-> "none", m |-> NoObj, status |-> CREATED, again |-> CREATED,
     raised |-> "none", ids |-> {}, at |-> NULL, m2 |-> NoObj, save |-> FALSE,
     stats |-> NoStats]

SendWindows == {<<60, Horizon - 60>>}
SendRecipients == {[i \in 1..NumRecipients |-> i]}
Solo == {"u1"}

Init ==
    /\ now = 0
    /\ db = [id \in Mids |-> NoRow]
    /\ logs = {}
    /\ attempts = {}
    /\ transport = {}
    /\ runs = 0
    /\ call = [c \in Callers |-> IdleCall]
    /\ cache = NULL
    /\ tick = [p \in Procs |-> NoTick]
    /\ fn = NoFn

Next ==
    \/ Advance(interval)
    \/ \E w \in SendWindows, rs \in SendRecipients : MailingCreate(w[1], w[2], rs)
    \/ \E c \in Solo, id \in Mids, dry \in BOOLEAN, entry \in {"view", "command"} :
            SendStart(c, id, dry, entry)
    \/ \E c \in Solo : SendStep(c)
    \/ \E c \in Solo : SendFinish(c)
    \/ \E c \in Solo : ViewRefresh(c)
    \/ \E c \in Solo : CommandDone(c)

Spec == Init /\ [][Next]_vars

(***************************************************************************)
(* SpecFn: the pure functions.  The stored rows, the object handed to       *)
(* compute_status and the clock are drawn from FnTimes; nothing is written. *)
(***************************************************************************)
FnTimes == {0, 60, 300, 360}

\* Stored rows: the window is valid (Mailing.save runs full_clean).
FnRows ==
    {[present |-> TRUE, start_at |-> a, end_at |-> b, status |-> st,
      last_sent_at |-> ls, recipients |-> <<1>>] :
        a \in FnTimes, b \in FnTimes, st \in MailingStatus, ls \in {NULL} \cup FnTimes}

FnRowsValid == {r \in FnRows : clean_ok(r.start_at, r.end_at)}

FnRowsOther == {NoRow} \cup {r \in FnRowsValid : r.start_at = 0 /\ r.end_at = 360}

\* Unsaved objects: any window.
FnObjects ==
    {[id |-> 1, start_at |-> a, end_at |-> b, status |-> CREATED, last_sent_at |-> ls] :
        a \in FnTimes, b \in FnTimes, ls \in {NULL} \cup FnTimes}

InitFn ==
    /\ now \in FnTimes
    /\ db \in {d \in [Mids -> FnRowsValid \cup {NoRow}] : d[1] # NoRow /\ d[2] \in FnRowsOther}
    /\ logs = {}
    /\ attempts = {}
    /\ transport = {}
    /\ runs = 0
    /\ call = [c \in Callers |-> IdleCall]
    /\ cache = NULL
    /\ tick = [p \in Procs |-> NoTick]
    /\ fn = NoFn

\* m.compute_status(), called twice in a row on the object m.
FnComputeStatus(m) ==
    /\ fn.op = "none"
    /\ fn' = [NoFn EXCEPT !.op = "compute_status", !.m = m,
                          !.status = compute_status(m, now),
                          !.again = compute_status(m, now)]
    /\ UNCHANGED <<now, db, logs, attempts, transport, runs, call, cache, tick>>

\* due_mailings_queryset(), evaluated.
FnDue ==
    /\ fn.op = "none"
    /\ LET q == due_mailings_queryset(db, now)
       IN  fn' = [NoFn EXCEPT !.op = "due", !.raised = q.raised, !.ids = q.ids]
    /\ UNCHANGED <<now, db, logs, attempts, transport, runs, call, cache, tick>>

\* compute_status() of the stored mailing id at now, and again at the later
\* time t2, when its last_sent_at may have become ls2.
FnStatusLater(id, t2, ls2) ==
    /\ fn.op = "none"
    /\ db[id].present
    /\ t2 > now
    /\ now' = t2
    /\ LET m == load(db, id)
           m2 == [m EXCEPT !.last_sent_at = ls2]
       IN  fn' = [NoFn EXCEPT !.op = "status_later", !.m = m, !.at = now, !.m2 = m2,
                              !.status = compute_status(m, now),
                              !.again = compute_status(m2, t2)]
    /\ UNCHANGED <<db, logs, attempts, transport, runs, call, cache, tick>>

\* The object a handler holds of the stored mailing id: the row as loaded,
\* with status st (the row may have been written since), with last_sent_at
\* stamped in memory when stamp, with the window edited in memory when edit.
FnHeld(id, st, stamp, edit) ==
    [load(db, id) EXCEPT !.status = st,
                         !.last_sent_at = IF stamp THEN now ELSE @,
                         !.start_at = IF edit THEN 0 ELSE @,
                         !.end_at = IF edit THEN 360 ELSE @]

\* m.refresh_status(save) on the object m held of the stored mailing id.
FnRefreshStatus(id, st, stamp, edit, save) ==
    /\ fn.op = "none"
    /\ db[id].present
    /\ LET m == FnHeld(id, st, stamp, edit)
       IN  /\ db' = IF save THEN refresh_status_db(db, m, now) ELSE db
           /\ fn' = [NoFn EXCEPT !.op = "refresh_status", !.m = m, !.save = save,
                                 !.m2 = refresh_status_obj(m, now),
                                 !.ids = update_fields(m, now, save)]
    /\ UNCHANGED <<now, logs, attempts, transport, runs, call, cache, tick>>

\* MailingDisableView.post on the stored mailing id.
FnDisable(id) ==
    /\ fn.op = "none"
    /\ db[id].present
    /\ clean_ok(db[id].start_at, db[id].end_at)
    /\ db' = disable_post(db, id, now)
    /\ fn' = [NoFn EXCEPT !.op = "disable", !.m = load(db, id)]
    /\ UNCHANGED <<now, logs, attempts, transport, runs, call, cache, tick>>

NextFn ==
    \/ \E id \in Mids : FnDisable(id)
    \/ \E m \in FnObjects : FnComputeStatus(m)
    \/ FnDue
    \/ \E st \in MailingStatus, stamp \in BOOLEAN, edit \in BOOLEAN, save \in BOOLEAN :
            FnRefreshStatus(1, st, stamp, edit, save)
    \/ \E t2 \in FnTimes, ls2 \in {NULL} \cup FnTimes : FnStatusLater(1, t2, ls2)

SpecFn == InitFn /\ [][NextFn]_vars

(***************************************************************************)
(* SpecPair: two handlers dispatch at the same time, each call of           *)
(* send_mailing interleaved step by step with the other's.                  *)
(***************************************************************************)
PairRecipients == {<<1, 2>>}
PairRuns == MaxRuns * Cardinality(Callers)

NextPair ==
    \/ Advance(interval)
    \/ \E w \in SendWindows, rs \in PairRecipients : MailingCreate(w[1], w[2], rs)
    \/ \E c \in Callers, id \in Mids, dry \in BOOLEAN, entry \in {"view", "command"} :
            SendStartWithin(PairRuns, c, id, dry, entry)
    \/ \E c \in Callers : SendStep(c)
    \/ \E c \in Callers : SendFinish(c)
    \/ \E c \in Callers : ViewRefresh(c)
    \/ \E c \in Callers : CommandDone(c)

SpecPair == Init /\ [][NextPair]_vars

(***************************************************************************)
(* SpecStats: the statistics query.  Both mailings are stored; the log and  *)
(* attempt tables hold any rows over StatsLogKeys and StatsAttemptKeys.     *)
(***************************************************************************)
StatsLogKeys == Mids \X {1, 2}
StatsAttemptKeys == {1, 2, 3}

StatsLogs ==
    {{log_row(k[1], k[2], k[1], k[2], f[k], "") : k \in {x \in StatsLogKeys : f[x] # ""}} :
        f \in [StatsLogKeys -> {"", "SENT", "ERROR", "DRY_RUN"}]}

StatsAttempts ==
    {{[pk |-> i, run |-> i, mailing |-> g[i][1], status |-> g[i][2],
       response |-> IF g[i][2] = SUCCESS THEN attempt_final(FALSE, 2, 2, 0).response ELSE FatalError] :
            i \in {x \in StatsAttemptKeys : g[x][1] # 0}} :
        g \in [StatsAttemptKeys -> {<<0, "">>} \cup (Mids \X {SUCCESS, FAIL})]}

InitStats ==
    /\ now = 0
    /\ db = [id \in Mids |-> save_row([NoObj EXCEPT !.id = id, !.start_at = 60, !.end_at = 120], <<1, 2>>, 0)]
    /\ logs \in StatsLogs
    /\ attempts \in StatsAttempts
    /\ transport = {}
    /\ runs = 0
    /\ call = [c \in Callers |-> IdleCall]
    /\ cache = NULL
    /\ tick = [p \in Procs |-> NoTick]
    /\ fn = NoFn

\* Mailing.objects.with_stats().get(pk=id), evaluated.
FnWithStats(id) ==
    /\ fn.op = "none"
    /\ db[id].present
    /\ fn' = [NoFn EXCEPT !.op = "with_stats", !.m = load(db, id),
                          !.stats = with_stats(logs, attempts, id)]
    /\ UNCHANGED <<now, db, logs, attempts, transport, runs, call, cache, tick>>

NextStats == \E id \in Mids : FnWithStats(id)

SpecStats == InitStats /\ [][NextStats]_vars

(***************************************************************************)
(* SpecSched: the scheduler.  Any number of ticks, of the scheduler        *)
(* processes and of the one-shot command, at any time; the clock moves by  *)
(* the lock's TTL, by the poll interval or by the difference of the two.    *)
(***************************************************************************)
NextSched ==
    \/ Advance(interval - LOCK_TTL)
    \/ Advance(LOCK_TTL)
    \/ Advance(interval)
    \/ \E w \in SendWindows, rs \in SendRecipients : MailingCreate(w[1], w[2], rs)
    \/ \E p \in Procs : TickStart(p)
    \/ \E p \in Procs : TickAcquire(p)
    \/ \E p \in Procs : TickScan(p)
    \/ \E p \in Procs : TickRelease(p)

SpecSched == Init /\ [][NextSched]_vars

(***************************************************************************)
(* SpecStop: the scheduler processes under signals.  Ticks at any time, a  *)
(* signal at any point of a tick, the exit of the process; the clock moves  *)
(* by the lock's TTL.                                                       *)
(***************************************************************************)
NextStop ==
    \/ Advance(LOCK_TTL)
    \/ \E w \in SendWindows, rs \in SendRecipients : MailingCreate(w[1], w[2], rs)
    \/ \E p \in Procs : TickStart(p)
    \/ \E p \in Procs : TickAcquire(p)
    \/ \E p \in Procs : TickScan(p)
    \/ \E p \in Procs : TickRelease(p)
    \/ \E p \in Procs : Signal(p)
    \/ \E p \in Procs : Exit(p)

SpecStop == Init /\ [][NextStop]_vars

(***************************************************************************)
(* SpecLife: the lifecycle.  Mailings are created and edited with any      *)
(* window on the minute grid, force-finished, changed by the admin status   *)
(* actions and dispatched, for real, by one handler.                        *)
(***************************************************************************)
LifeRecipients == {<<1>>}

NextLife ==
    \/ Advance(interval)
    \/ \E a \in Times, b \in Times, rs \in LifeRecipients : MailingCreate(a, b, rs)
    \/ \E id \in Mids, a \in Times, b \in Times : MailingUpdate(id, a, b)
    \/ \E id \in Mids : MailingDisable(id)
    \/ \E S \in SUBSET Mids, st \in MailingStatus : AdminSetStatus(S, st)
    \/ \E S \in SUBSET Mids : recompute_status(S)
    \/ \E c \in Solo, id \in Mids, entry \in {"view", "command"} :
            SendStart(c, id, FALSE, entry)
    \/ \E c \in Solo : SendStep(c)
    \/ \E c \in Solo : SendFinish(c)
    \/ \E c \in Solo : ViewRefresh(c)
    \/ \E c \in Solo : CommandDone(c)

SpecLife == Init /\ [][NextLife]_vars

(***************************************************************************)
(* SpecFault: the dispatch engine over a database that may refuse writes.   *)
(* One recipient of the mailing has an empty email.                         *)
(***************************************************************************)
FaultRecipients == {<<1, 0, 2>>}

NextFault ==
    \/ Advance(interval)
    \/ \E w \in SendWindows, rs \in FaultRecipients : MailingCreate(w[1], w[2], rs)
    \/ \E c \in Solo, id \in Mids, dry \in BOOLEAN, entry \in {"view", "command"} :
            SendStart(c, id, dry, entry)
    \/ \E c \in Solo, id \in Mids, dry \in BOOLEAN, entry \in {"view", "command"} :
            SendStartFails(c, id, dry, entry)
    \/ \E c \in Solo : SendStep(c)
    \/ \E c \in Solo, retry_ok \in BOOLEAN, handler_ok \in BOOLEAN :
            SendStepLogFails(c, retry_ok, handler_ok)
    \/ \E c \in Solo : SendFinish(c)
    \/ \E c \in Solo, where \in {"mailing", "attempt"}, handler_ok \in BOOLEAN :
            SendFinishFails(c, where, handler_ok)
    \/ \E c \in Solo : ViewRefresh(c)
    \/ \E c \in Solo : CommandDone(c)
    \/ \E c \in Solo : CallerFails(c)

SpecFault == Init /\ [][NextFault]_vars

(***************************************************************************)
(* Saves that may be refused: the form path (MailingForm in the create and  *)
(* update views) and the model save path (Mailing.save() called directly,   *)
(* as by the admin's add and change pages).  fn records the object          *)
(* submitted and the error raised.                                          *)
(***************************************************************************)
EndAtError == "ValidationError(end_at)"

\* The object submitted: a new one (id 0) or the stored one with a new window.
submitted(d, id, start_at, end_at) ==
    IF id = 0
    THEN [id |-> 0, start_at |-> start_at, end_at |-> end_at,
          status |-> CREATED, last_sent_at |-> NULL]
    ELSE [load(d, id) EXCEPT !.start_at = start_at, !.end_at = end_at]

\* The table after Mailing.save() of the submitted object went through.
saved(d, id, obj, recipients, t) ==
    IF id = 0
    THEN [d EXCEPT ![next_pk(d)] = save_row(obj, recipients, t)]
    ELSE [d EXCEPT ![id] = save_row(obj, d[id].recipients, t)]

\* MailingCreateView (id 0) or MailingUpdateView with any window: the form's
\* clean adds its errors to end_at, the model's clean runs in the form's
\* validation too; an invalid form is shown again and nothing is saved.
FormSubmit(id, start_at, end_at, recipients) ==
    /\ IF id = 0 THEN \E j \in Mids : ~db[j].present ELSE id \in Mids /\ db[id].present
    /\ LET obj == submitted(db, id, start_at, end_at)
           ok == form_clean_ok(start_at, end_at, now) /\ clean_ok(start_at, end_at)
       IN  /\ db' = IF ok THEN saved(db, id, obj, recipients, now) ELSE db
           /\ fn' = [NoFn EXCEPT !.op = "form", !.m = obj,
                                 !.raised = IF ok THEN "none" ELSE EndAtError]
    /\ UNCHANGED <<now, logs, attempts, transport, runs, call, cache, tick>>

\* Mailing.save() on a new object (id 0) or on a stored one with a new
\* window: full_clean() runs Mailing.clean, then the row is written.
ModelSave(id, start_at, end_at, recipients) ==
    /\ IF id = 0 THEN \E j \in Mids : ~db[j].present ELSE id \in Mids /\ db[id].present
    /\ LET obj == submitted(db, id, start_at, end_at)
           ok == clean_ok(start_at, end_at)
       IN  /\ db' = IF ok THEN saved(db, id, obj, recipients, now) ELSE db
           /\ fn' = [NoFn EXCEPT !.op = "model", !.m = obj,
                                 !.raised = IF ok THEN "none" ELSE EndAtError]
    /\ UNCHANGED <<now, logs, attempts, transport, runs, call, cache, tick>>

(***************************************************************************)
(* SpecSave: saves of mailings with any window on the minute grid, through  *)
(* the form and through Mailing.save().                                     *)
(***************************************************************************)
NextSave ==
    \/ Advance(interval)
    \/ \E id \in {0} \cup Mids, a \in Times, b \in Times, rs \in LifeRecipients :
            FormSubmit(id, a, b, rs)
    \/ \E id \in {0} \cup Mids, a \in Times, b \in Times, rs \in LifeRecipients :
            ModelSave(id, a, b, rs)

SpecSave == Init /\ [][NextSave]_vars

(***************************************************************************)
(* SpecEdit: mailings are created with the window SendWindows, dispatched   *)
(* for real by one handler and edited through the form, with any window on  *)
(* the minute grid that ends after it starts and does not start at time 0.  *)
(***************************************************************************)
EditWindows == {w \in (Times \ {0}) \X Times : w[1] < w[2]}

NextEdit ==
    \/ Advance(interval)
    \/ \E w \in SendWindows, rs \in LifeRecipients : MailingCreate(w[1], w[2], rs)
    \/ \E id \in Mids, w \in EditWindows, rs \in LifeRecipients :
            FormSubmit(id, w[1], w[2], rs)
    \/ \E c \in Solo, id \in Mids, entry \in {"view", "command"} :
            SendStart(c, id, FALSE, entry)
    \/ \E c \in Solo : SendStep(c)
    \/ \E c \in Solo : SendFinish(c)
    \/ \E c \in Solo : ViewRefresh(c)
    \/ \E c \in Solo : CommandDone(c)

SpecEdit == Init /\ [][NextEdit]_vars

(***************************************************************************)
(* Properties of the dispatch engine (checked under Spec).                 *)
(***************************************************************************)

\* The recipients of the mailing an invocation works on, as stored.
StoredRecipients(k) == db[k.obj.id].recipients

\* The log row an invocation owes a recipient for what the transport did.
OwnStatus(result) == IF result = "accepted" THEN "SENT" ELSE "ERROR"
OwnDetail(result) ==
    IF result = "accepted" THEN "smtp"
    ELSE IF result = "zero" THEN "returned 0" ELSE "exception"

\* C1: Partial failure isolation.  A real (non-dry-run) send_mailing never
\* raises, whichever recipients the transport raises for; for every recipient
\* the loop has passed there is exactly one log row, with the status of that
\* recipient's own outcome (ERROR where the transport raised); the loop goes
\* on after a failure, and the call returns total = number of recipients.
C1_PartialFailureIsolation ==
    \A c \in Callers :
        LET k == call[c]
        IN  /\ k.pc # "raised"
            /\ (k.pc \in {"loop", "returned"} /\ ~k.dry_run) =>
                 /\ Cardinality(LogsOf(k.run)) = k.i - 1
                 /\ Cardinality(CallsOf(k.run)) = k.i - 1
                 /\ \A n \in 1..(k.i - 1) :
                      \E l \in LogsOf(k.run), x \in CallsOf(k.run) :
                          /\ l.n = n /\ x.n = n
                          /\ l.recipient = k.emails[n] /\ x.to = k.emails[n]
                          /\ l.mailing = k.obj.id
                          /\ l.status = OwnStatus(x.result)
                          /\ l.detail = OwnDetail(x.result)
            /\ (k.pc = "returned" /\ ~k.dry_run) =>
                 /\ k.i - 1 = Len(StoredRecipients(k))
                 /\ k.ret.total = Len(StoredRecipients(k))

\* C1 witness: a real run over at least 3 recipients has returned; the
\* transport raised for recipient #2 and accepted #1 and #3.
C1_Witness ==
    \E c \in Callers :
        LET k == call[c]
        IN  /\ k.pc = "returned" /\ ~k.dry_run /\ Len(k.emails) >= 3
            /\ \E x \in CallsOf(k.run) : x.n = 2 /\ x.result = "raise"
            /\ \E l \in LogsOf(k.run) : l.n = 2 /\ l.status = "ERROR"
            /\ \E l \in LogsOf(k.run) : l.n = 1 /\ l.status = "SENT"
            /\ \E l \in LogsOf(k.run) : l.n = 3 /\ l.status = "SENT"
            /\ k.ret.total = 3

\* The state part of C2.
C2_DryRunState ==
    \A c \in Callers :
        LET k == call[c]
            N == Len(StoredRecipients(k))
        IN  (k.pc \in {"loop", "returned"} /\ k.dry_run) =>
              /\ CallsOf(k.run) = {}
              /\ \A l \in LogsOf(k.run) : l.status = "DRY_RUN" /\ l.mailing = k.obj.id
              /\ k.pc = "returned" =>
                   /\ k.ret.sent = 0 /\ k.ret.skipped = N /\ k.ret.total = N
                   /\ Cardinality(LogsOf(k.run)) = N

\* The step part of C2: no step of a dry run changes last_sent_at, of the
\* stored row or of the object in hand.
C2_DryRunFrame ==
    \A c \in Callers :
        (call[c].dry_run /\ call'[c] # call[c]) =>
          /\ \A id \in Mids : db'[id].last_sent_at = db[id].last_sent_at
          /\ call'[c].pc # "idle" => call'[c].obj.last_sent_at = call[c].obj.last_sent_at

\* C2: Dry-run never sends.  A send_mailing with dry_run = true on a mailing
\* with N recipients makes no transport call, returns sent = 0, skipped = N,
\* total = N, writes exactly N log rows, all DRY_RUN, and leaves the
\* mailing's last_sent_at unchanged.
C2_DryRunNeverSends == []C2_DryRunState /\ [][C2_DryRunFrame]_vars

\* C2 witness: a dry run over NumRecipients >= 3 recipients has returned.
C2_Witness ==
    \E c \in Callers :
        LET k == call[c]
        IN  /\ k.pc = "returned" /\ k.dry_run
            /\ k.ret.total >= 3
            /\ Cardinality(LogsOf(k.run)) = k.ret.total

\* C3: First successful real send stamps the mailing.  After a real
\* send_mailing in which the transport accepted at least one recipient, the
\* stored row's last_sent_at is the time of the stamp, and the stored status
\* is RUNNING when the window was open at that time.
C3_FirstSendStampsRecord ==
    \A c \in Callers :
        LET k == call[c]
        IN  (k.pc = "returned" /\ ~k.dry_run /\ k.ret.sent > 0) =>
              /\ db[k.obj.id].last_sent_at = k.obj.last_sent_at
              /\ (k.obj.start_at <= k.obj.last_sent_at /\ k.obj.last_sent_at < k.obj.end_at)
                    => db[k.obj.id].status = RUNNING

\* C10: On normal return of send_mailing the invocation's attempt row has its
\* final status and is no longer the "attempt started" placeholder: SUCCESS
\* for a dry run, SUCCESS for a real run with sent > 0, FAIL for a real run
\* with sent = 0.
C10_AttemptFinalOnReturn ==
    \A c \in Callers :
        LET k == call[c]
        IN  k.pc = "returned" =>
              /\ Cardinality(AttemptsOf(k.run)) = 1
              /\ \A a \in AttemptsOf(k.run) :
                    /\ a.response # AttemptStarted
                    /\ a.mailing = k.obj.id
                    /\ a.status = IF k.dry_run THEN SUCCESS
                                  ELSE IF k.ret.sent > 0 THEN SUCCESS ELSE FAIL

\* C10 witness: a real run in which nothing was accepted has returned, its
\* attempt row is FAIL with the "no real sends" response.
C10_Witness ==
    \E c \in Callers :
        LET k == call[c]
        IN  /\ k.pc = "returned" /\ ~k.dry_run /\ k.ret.sent = 0 /\ k.ret.total > 0
            /\ \E a \in AttemptsOf(k.run) :
                  a.status = FAIL /\ a.response.kind = "no real sends"

C11_CreatedFirst ==
    /\ \A l \in logs : AttemptsOf(l.run) # {}
    /\ \A x \in transport : AttemptsOf(x.run) # {}
    /\ \A c \in Callers :
          call[c].pc = "loop" =>
              \A a \in AttemptsOf(call[c].run) :
                  a.status = FAIL /\ a.response.kind = "attempt started"

\* The action part of C11.  A new attempt row is the placeholder of a run
\* that has no log row and no transport call yet.  A row changes only in the
\* step that ends the invocation that created it, only from the placeholder,
\* and never back to it; no row is removed.
C11_Writes ==
    /\ \A a \in attempts' :
          (\A b \in attempts : b.pk # a.pk) =>
              /\ a.status = FAIL /\ a.response.kind = "attempt started"
              /\ {l \in logs' : l.run = a.run} = {}
              /\ {x \in transport' : x.run = a.run} = {}
    /\ \A b \in attempts :
          /\ \E a \in attempts' : a.pk = b.pk
          /\ (b \notin attempts') =>
                /\ b.response.kind = "attempt started"
                /\ \A a \in attempts' : a.pk = b.pk => a.response.kind # "attempt started"
                /\ \E c \in Callers :
                      /\ call[c].attempt = b.pk /\ call[c].run = b.run
                      /\ call[c].pc = "loop"
                      /\ call'[c].pc \in {"returned", "raised"}
    /\ \A c \in Callers :
          (call[c].pc = "loop" /\ call'[c].pc = "returned") =>
              \A b \in attempts : b.pk = call[c].attempt => b \notin attempts'

\* C11: two-phase attempt write.  In every dispatch invocation the attempt
\* row is created with status FAIL and response 'attempt started' before any
\* log row or transport call, and it is updated exactly once, at the end of
\* the same invocation; nothing else modifies an attempt row.
C11_TwoPhaseAttempt == []C11_CreatedFirst /\ [][C11_Writes]_vars

\* A real run with an accepted recipient has returned: its row, created as
\* the placeholder, now reads SUCCESS with the counters.
C11_Witness ==
    \E c \in Callers :
        LET k == call[c]
        IN  /\ k.pc = "returned" /\ ~k.dry_run /\ k.ret.sent > 0
            /\ Cardinality(LogsOf(k.run)) >= 2
            /\ \E a \in AttemptsOf(k.run) :
                  a.pk = k.attempt /\ a.status = SUCCESS /\ a.response.kind = "sent"

(***************************************************************************)
(* Properties of the scheduler (checked under SpecSched).                  *)
(***************************************************************************)

\* The processes that are inside the scan-and-dispatch section of
\* run_due_mailings: the lock is taken and not yet released.
InSection == {p \in Procs : tick[p].pc \in {"scan", "finally"}}

\* C5: at any time at most one tick, across all scheduler processes sharing
\* the cache, is inside the scan-and-dispatch section.
C5_AtMostOneTickInSection == Cardinality(InSection) <= 1

\* C6: when a tick tries to take the lock, it proceeds into the section
\* exactly when the key is not in the cache; otherwise it returns 0 and has
\* changed nothing.  So of two ticks trying against the same key, one
\* proceeds and the other returns 0.
C6_Attempt(p) ==
    (tick[p].pc = "start" /\ tick'[p].pc # "start") =>
        IF cache_has(cache, now)
        THEN /\ tick'[p].pc = "idle"
             /\ tick'[p].ret = 0
             /\ UNCHANGED <<db, logs, attempts, transport, cache>>
        ELSE /\ tick'[p].pc = "scan"
             /\ cache_has(cache', now)

C6_RacingTicksStep == \A p \in Procs : C6_Attempt(p)

C6_RacingTicks == [][C6_RacingTicksStep]_vars

\* Two ticks tried at the same instant; one is in the section, the other has
\* returned 0.
C6_Witness ==
    \E p, q \in Procs :
        /\ p # q
        /\ tick[p].pc = "scan"
        /\ tick[q].pc = "idle"
        /\ tick[q].ret = 0
        /\ tick[p].at = now
        /\ tick[q].at = now

\* A tick that has the lock leaves run_due_mailings only through the finally
\* clause, and the step that ends it leaves no lock key in the cache.
C14_EndOfTick(p) ==
    /\ tick[p].pc = "scan" => tick'[p].pc \in {"scan", "finally"}
    /\ tick[p].pc = "finally" => tick'[p].pc \in {"finally", "idle"}
    /\ (tick[p].pc \in {"scan", "finally"} /\ tick'[p].pc = "idle") =>
          ~cache_has(cache', now')

C14_ReleaseStep == \A p \in Procs : C14_EndOfTick(p)

\* C14: every scheduler tick that acquired the lock releases it when the
\* tick ends, whether the tick completes normally or the scan or a dispatch
\* raises.
C14_LockReleasedAtEnd == [][C14_ReleaseStep]_vars

\* A tick took the lock, its scan raised, and the tick has ended: the key is
\* gone.
C14_Witness ==
    \E p \in Procs :
        /\ tick[p].pc = "idle"
        /\ tick[p].at # NULL
        /\ tick[p].raised # "none"
        /\ ~cache_has(cache, now)
        /\ \A q \in Procs : tick[q].pc \in {"idle", "start"}

\* A step of tick p that finds the lock key in the cache: p is back to idle
\* with the value 0, and nothing else has changed.
C15_FailedAcquire(p) ==
    (tick[p].pc = "start" /\ cache_has(cache, now) /\ tick'[p] # tick[p]) =>
        /\ tick'[p].pc = "idle"
        /\ tick'[p].ret = 0
        /\ tick'[p].raised = "none"
        /\ cache' = cache
        /\ cache_has(cache', now')
        /\ UNCHANGED <<db, logs, attempts, transport, runs, call>>
        /\ \A q \in Procs \ {p} : tick'[q] = tick[q]

C15_FailedAcquireStep == \A p \in Procs : C15_FailedAcquire(p)

\* C15: a scheduler tick that fails to acquire the lock returns 0 and changes
\* nothing: no log or attempt row, no mailing, no transport call, and the
\* lock of the other tick stays in place.
C15_FailedTickChangesNothing == [][C15_FailedAcquireStep]_vars

\* A tick tried after another tick had taken the lock and returned 0; the
\* other tick is still in its section, a mailing is stored, the key is there.
C15_Witness ==
    \E p, q \in Procs :
        /\ tick[q].pc \in {"scan", "finally"}
        /\ tick[p].pc = "idle"
        /\ tick[p].ret = 0
        /\ tick[p].at > tick[q].at
        /\ cache_has(cache, now)
        /\ \E id \in Mids : db[id].present

(***************************************************************************)
(* Properties of the pure functions (checked under SpecFn).                *)
(***************************************************************************)

\* The status the lifecycle rules give the object m at time t.
RuleStatus(m, t) ==
    CASE t >= m.end_at -> FINISHED
      [] t < m.end_at /\ (m.last_sent_at # NULL \/ (m.start_at <= t /\ t < m.end_at)) -> RUNNING
      [] OTHER -> CREATED

\* C4: compute_status is FINISHED if now >= end_at; otherwise RUNNING if the
\* mailing has ever been sent or start_at <= now < end_at; otherwise CREATED;
\* for every now, start_at, end_at and last_sent_at, and a second call on the
\* same inputs gives the same result.
C4_ComputeStatusFunction ==
    fn.op = "compute_status" =>
        /\ fn.status = RuleStatus(fn.m, now)
        /\ fn.again = fn.status

\* compute_status answered FINISHED exactly at end_at for a mailing that was
\* sent before.
C4_Witness ==
    /\ fn.op = "compute_status"
    /\ fn.m.last_sent_at # NULL
    /\ fn.m.start_at < fn.m.end_at
    /\ now = fn.m.end_at
    /\ fn.status = FINISHED

\* The rows the due set is defined to hold at time t.
DueSet(d, t) ==
    {id \in Mids :
        /\ d[id].present
        /\ d[id].start_at <= t /\ t <= d[id].end_at
        /\ d[id].status \in {CREATED, RUNNING}
        /\ (d[id].last_sent_at = NULL
            \/ d[id].last_sent_at + MAILINGS_MIN_REPEAT_MINUTES * 60 <= t)}

\* C8: due_mailings_queryset evaluated at now returns exactly the mailings
\* with start_at <= now <= end_at, stored status CREATED or RUNNING, and
\* last_sent_at null or at least min_repeat_interval old.
C8_DueSetExact ==
    fn.op = "due" =>
        /\ fn.raised = "none"
        /\ fn.ids = DueSet(db, now)

\* C17: a mailing whose stored status is FINISHED is never selected as due,
\* even while start_at <= now <= end_at: the WHERE clause of
\* due_mailings_queryset rejects its row, and no evaluation of the queryset
\* returns it.
C17_FinishedNeverDue ==
    /\ \A id \in Mids :
          (db[id].present /\ db[id].status = FINISHED) => ~due_filter(db[id], now)
    /\ fn.op = "due" => \A id \in fn.ids : db[id].status # FINISHED

\* The queryset was evaluated while a FINISHED mailing, never sent, had its
\* window open; the mailing is not in the result.
C17_Witness ==
    /\ fn.op = "due"
    /\ \E id \in Mids :
          /\ db[id].present /\ db[id].status = FINISHED
          /\ db[id].last_sent_at = NULL
          /\ db[id].start_at <= now /\ now <= db[id].end_at
          /\ id \notin fn.ids

\* C21: monotonic finish.  For a mailing with unchanged end_at, once
\* now >= end_at compute_status is FINISHED whatever the send history, and it
\* is still FINISHED at every later now2 > now, whatever happened to
\* last_sent_at in between.
C21_MonotonicFinish ==
    /\ (fn.op = "compute_status" /\ now >= fn.m.end_at) => fn.status = FINISHED
    /\ (fn.op = "status_later" /\ fn.at >= fn.m.end_at) =>
          /\ now > fn.at /\ fn.m2.end_at = fn.m.end_at
          /\ fn.status = FINISHED
          /\ fn.again = FINISHED

\* compute_status answered FINISHED exactly at end_at for a mailing never
\* sent, and FINISHED again later, after the mailing had been stamped as sent.
C21_Witness ==
    /\ fn.op = "status_later"
    /\ fn.at = fn.m.end_at /\ now > fn.at
    /\ fn.m.last_sent_at = NULL /\ fn.m2.last_sent_at # NULL
    /\ fn.status = FINISHED /\ fn.again = FINISHED

\* C22: refresh_status recomputes the status.  When it is unchanged nothing
\* is written; when it changed and save is true only the columns status and
\* updated_at are written, and the stored start_at, end_at, last_sent_at and
\* recipients (and every other row) are as before, whatever the object holds
\* in memory; when save is false only the status of the object changes.
C22_RefreshStep ==
    fn'.op = "refresh_status" /\ fn.op = "none" =>
        LET m == fn'.m
            new == compute_status(m, now)
        IN  /\ fn'.m2 = [m EXCEPT !.status = new]
            /\ (m.status = new) => (db' = db /\ fn'.ids = {})
            /\ (m.status # new /\ ~fn'.save) => (db' = db /\ fn'.ids = {})
            /\ (m.status # new /\ fn'.save) =>
                  /\ fn'.ids = {"status", "updated_at"}
                  /\ db' = [db EXCEPT ![m.id].status = new]

C22_RefreshStatusFrame == [][C22_RefreshStep]_vars

\* refresh_status(save=True) changed the stored status of a mailing whose
\* object had been stamped as sent in memory; the stored last_sent_at is
\* still null.
C22_Witness ==
    /\ fn.op = "refresh_status" /\ fn.save
    /\ fn.m.status # fn.m2.status
    /\ fn.m.last_sent_at # NULL
    /\ db[fn.m.id].status = fn.m2.status
    /\ db[fn.m.id].last_sent_at = NULL

CooledDown(r, t) ==
    r.last_sent_at = NULL \/ r.last_sent_at + MAILINGS_MIN_REPEAT_MINUTES * 60 <= t

C26_ForceFinish ==
    fn.op = "disable" => db[fn.m.id].status = FINISHED

(***************************************************************************)
(* Properties of the lifecycle (checked under SpecLife).                   *)
(***************************************************************************)

\* A step that writes the row of mailing id leaves it with the status that
\* compute_status gives the stored row at the time of the write.
C9_WriteConsistent(id) ==
    (db'[id] # db[id]) => db'[id].status = compute_status(load(db', id), now')

C9_WriteStep == \A id \in Mids : C9_WriteConsistent(id)

\* C9: after every operation that writes a Mailing (create, edit, dispatch,
\* scheduler tick, force finish, admin status actions) the stored status
\* equals compute_status evaluated at the time of that write.
C9_StatusConsistency == [][C9_WriteStep]_vars

(***************************************************************************)
(* Properties of the dispatch engine over a database that may refuse       *)
(* writes (checked under SpecFault).                                       *)
(***************************************************************************)

\* C12 as stated: whenever send_mailing raises, the attempt row of that
\* invocation is marked FAIL with the generic response.
C12_RaiseMarksAttempt ==
    \A c \in Callers :
        call[c].pc \in RaisedPcs =>
            \E a \in AttemptsOf(call[c].run) :
                a.status = FAIL /\ a.response.kind = "fatal error"

\* C12, amended: when an error escapes the per-recipient isolation after the
\* attempt row was created, the error is re-raised, and the row is FAIL with
\* the generic response if the handler's own write went through and is left
\* as the FAIL placeholder if it did not; an error raised before the attempt
\* row exists leaves send_mailing with no row, log or transport call of
\* that run.
C12_FatalPathBestEffort ==
    \A c \in Callers :
        LET k == call[c]
        IN  /\ k.pc = "raised" =>
                 /\ Cardinality(AttemptsOf(k.run)) = 1
                 /\ \A a \in AttemptsOf(k.run) :
                       a.pk = k.attempt /\ a.status = FAIL /\ a.response.kind = "fatal error"
            /\ k.pc = "raised_unmarked" =>
                 /\ Cardinality(AttemptsOf(k.run)) = 1
                 /\ \A a \in AttemptsOf(k.run) :
                       a.pk = k.attempt /\ a.status = FAIL
                       /\ a.response.kind = "attempt started"
            /\ k.pc = "raised_early" =>
                 /\ AttemptsOf(k.run) = {}
                 /\ LogsOf(k.run) = {}
                 /\ CallsOf(k.run) = {}

\* A real run raised after its first recipient was logged; the handler
\* marked the row.
C12_Witness ==
    \E c \in Callers :
        LET k == call[c]
        IN  /\ k.pc = "raised" /\ ~k.dry_run
            /\ LogsOf(k.run) # {}
            /\ \E a \in AttemptsOf(k.run) :
                  a.status = FAIL /\ a.response.kind = "fatal error"

\* The positions of the stored recipients of the call k that have an email.
WithEmail(k) == {j \in 1..Len(StoredRecipients(k)) : StoredRecipients(k)[j] # 0}

\* C13: accounting of one dispatch.  An invocation that returned normally has
\* written exactly one log row for each recipient with a non-empty email and
\* exactly one attempt row; total = sent + skipped = number of log rows of
\* the invocation; recipients with an empty email are not counted and have
\* no log row.
C13_Accounting ==
    \A c \in Callers :
        LET k == call[c]
        IN  k.pc = "returned" =>
              /\ Cardinality(LogsOf(k.run)) = Cardinality(WithEmail(k))
              /\ \A j \in WithEmail(k) :
                    Cardinality({l \in LogsOf(k.run) :
                                    l.recipient = StoredRecipients(k)[j]}) = 1
              /\ \A l \in LogsOf(k.run) : l.recipient # 0
              /\ Cardinality(AttemptsOf(k.run)) = 1
              /\ k.ret.total = Cardinality(WithEmail(k))
              /\ k.ret.total = k.ret.sent + k.ret.skipped

(***************************************************************************)
(* Properties of the scheduler's scan (checked under SpecSched).           *)
(***************************************************************************)

\* The step in which tick p scans and dispatches: for every mailing due at
\* that time one real dispatch has been made (one new attempt row for it),
\* and the tick is about to return their number.
C16_ScanDispatches(p) ==
    (tick[p].pc = "scan" /\ tick'[p].pc # "scan") =>
        /\ tick'[p].raised = "none"
        /\ tick'[p].ret = Cardinality(DueSet(db, now))
        /\ \A id \in DueSet(db, now) :
              Cardinality({a \in attempts' \ attempts : a.mailing = id}) = 1
        /\ \A a \in attempts' \ attempts : a.mailing \in DueSet(db, now)

C16_ScanStep == \A p \in Procs : C16_ScanDispatches(p)

\* C16: a scheduler tick that acquires the lock invokes exactly one
\* non-dry-run dispatch for every mailing that is due at poll time, refreshes
\* the mailing's status, and returns the number of mailings processed.
C16_TickDispatchesDue == [][C16_ScanStep]_vars

\* The stored row a real dispatch with sent = 0 leaves behind (it stamps
\* nothing), its window still open at time t.
UnsentOpen(r, t) ==
    /\ r.present
    /\ r.last_sent_at = NULL
    /\ r.status \in {CREATED, RUNNING}
    /\ r.start_at <= t /\ t <= r.end_at

\* The step in which tick p scans and dispatches: every mailing that is
\* still unsent with its window open is dispatched again.
C18_Rescan(p) ==
    (tick[p].pc = "scan" /\ tick'[p].pc # "scan") =>
        \A id \in Mids :
            UnsentOpen(db[id], now) =>
                /\ tick'[p].raised = "none"
                /\ \E a \in attempts' \ attempts : a.mailing = id

C18_RescanStep == \A p \in Procs : C18_Rescan(p)

\* C18: retry by construction.  A due mailing whose real dispatch ended with
\* sent = 0 is selected as due again by the next tick that acquires the lock
\* while its window is open, and is dispatched again.
C18_RetryByConstruction == [][C18_RescanStep]_vars

(***************************************************************************)
(* Properties of the save paths (checked under SpecSave).                  *)
(***************************************************************************)

\* The step is a save, through the form or through Mailing.save().
IsSave == fn'.op \in {"form", "model"} /\ (fn' # fn \/ db' # db)

\* A save of an object with end_at <= start_at raises the validation error
\* on end_at and leaves the table as it was.
C19_InvalidWindowRefused ==
    (IsSave /\ fn'.m.end_at <= fn'.m.start_at) =>
        /\ fn'.raised = "ValidationError(end_at)"
        /\ db' = db

\* No stored mailing has end_at <= start_at.
C19_StoredWindows ==
    \A id \in Mids : db[id].present => db[id].start_at < db[id].end_at

\* C19: window validation.  Every full save of a mailing with
\* end_at <= start_at fails with a validation error on end_at and stores
\* nothing, on the form path and on the model save path alike.
C19_WindowValidation == []C19_StoredWindows /\ [][C19_InvalidWindowRefused]_vars

\* Mailing.save() was called on a stored mailing with a window that ends
\* before it starts but not in the past; it raised, the row is as before.
C19_Witness ==
    /\ fn.op = "model"
    /\ fn.m.id # 0
    /\ fn.m.end_at < fn.m.start_at
    /\ fn.m.end_at > now
    /\ fn.raised = "ValidationError(end_at)"
    /\ db[fn.m.id].present
    /\ db[fn.m.id].end_at # fn.m.end_at

\* The creation of a mailing whose end_at is not after the current time
\* raises the validation error on end_at and stores nothing.
C20_PastEndRefused ==
    (IsSave /\ fn'.m.id = 0 /\ fn'.m.end_at <= now) =>
        /\ fn'.raised = "ValidationError(end_at)"
        /\ db' = db

\* C20: creating a mailing whose end_at is at or before the current time
\* fails with a validation error on end_at, on every path that creates a
\* mailing (form and model save).
C20_NoCreationInThePast == [][C20_PastEndRefused]_vars

(***************************************************************************)
(* Properties of the scheduler processes under signals (checked under      *)
(* SpecStop).                                                              *)
(***************************************************************************)

\* A tick of p is between taking the lock and releasing it.
Holding(p) == tick[p].pc \in {"scan", "finally"}

C23_Exited ==
    \A p \in Procs : tick[p].proc = "exited" => ~Holding(p) /\ tick[p].pc = "idle"

C23_StoppingStep ==
    \A p \in Procs :
        (tick[p].proc = "stopping" /\ Holding(p)) =>
            /\ tick'[p].proc = "stopping"
            /\ (~Holding(p))' => cache' = NULL

TrueCount(T, id, st) == Cardinality({r \in T : r.mailing = id /\ r.status = st})

\* C24: for every mailing and any numbers of log and attempt rows on it, the
\* with_stats annotations equal the true row counts: sent_messages,
\* failed_messages and dry_run_messages are its log rows with status SENT,
\* ERROR and DRY_RUN, attempt_success and attempt_fail its attempt rows with
\* status SUCCESS and FAIL.
C24_StatsAreTrueCounts ==
    fn.op = "with_stats" =>
        /\ fn.stats.sent_messages = TrueCount(logs, fn.m.id, "SENT")
        /\ fn.stats.failed_messages = TrueCount(logs, fn.m.id, "ERROR")
        /\ fn.stats.dry_run_messages = TrueCount(logs, fn.m.id, "DRY_RUN")
        /\ fn.stats.attempt_success = TrueCount(attempts, fn.m.id, SUCCESS)
        /\ fn.stats.attempt_fail = TrueCount(attempts, fn.m.id, FAIL)

(***************************************************************************)
(* Properties of concurrent dispatches (checked under SpecPair).           *)
(***************************************************************************)

\* The rows of the table T that belong to the mailing id.
RowsOf(T, id) == {r \in T : r.mailing = id}

\* The mailing the handler c works on in this step.
Dispatched(c) == IF call[c].pc = "idle" THEN call'[c].obj.id ELSE call[c].obj.id

C25_Step ==
    \A c \in Callers :
        call'[c] # call[c] =>
            \A b \in Mids \ {Dispatched(c)} :
                /\ db'[b] = db[b]
                /\ RowsOf(logs', b) = RowsOf(logs, b)
                /\ RowsOf(attempts', b) = RowsOf(attempts, b)

\* C25: dispatches of different mailings are independent.  Every step of a
\* send_mailing of mailing A, and of the handler around it, creates and
\* modifies only log and attempt rows of A and A's own mailing row; the rows
\* of any other mailing B are as before, in every interleaving with a
\* dispatch of B.
C25_DispatchesIndependent == [][C25_Step]_vars

\* Two handlers are in the middle of real dispatches of different mailings,
\* each with one recipient done.
C25_Witness ==
    /\ call["u1"].pc = "loop" /\ call["u2"].pc = "loop"
    /\ call["u1"].obj.id # call["u2"].obj.id
    /\ ~call["u1"].dry_run /\ ~call["u2"].dry_run
    /\ call["u1"].i = 2 /\ call["u2"].i = 2
    /\ RowsOf(logs, 1) # {} /\ RowsOf(logs, 2) # {}

(***************************************************************************)
(* Properties of edits after a send (checked under SpecEdit).              *)
(***************************************************************************)

\* A real send of the mailing id reached a recipient.
WasSent(id) == \E l \in logs : l.mailing = id /\ l.status = "SENT"

\* The step is a valid form submission that edits the stored mailing id.
EditOf(id) ==
    /\ fn'.op = "form" /\ fn'.m.id = id /\ fn'.raised = "none"
    /\ call' = call
    /\ fn' # fn \/ db'[id] # db[id]

\* An edit through the form, of a mailing that a send has reached and whose
\* stored status is RUNNING, to a window that starts in the future, stores
\* the status CREATED.
C27_EditStep ==
    \A id \in Mids :
        (EditOf(id) /\ db[id].status = RUNNING /\ WasSent(id) /\ fn'.m.start_at > now) =>
            /\ db'[id].start_at = fn'.m.start_at
            /\ db'[id].status = CREATED

LaterLockOf(q, p) ==
    /\ Holding(q)
    /\ tick[q].at > tick[p].at
    /\ cache = tick[q].at + LOCK_TTL

C29_ReleaseStep ==
    \A p \in Procs :
        (tick[p].pc = "finally" /\ tick'[p].pc = "idle") =>
            \A q \in Procs \ {p} : LaterLockOf(q, p) => cache' = cache

\* C29: lock ownership on release.  The release at the end of a scheduler
\* tick removes the lock only if that tick still holds it; a tick that ran
\* past the 55-second TTL never deletes a lock that a later tick has acquired
\* in the meantime.
C29_ReleaseOwnLockOnly == [][C29_ReleaseStep]_vars

(***************************************************************************)
(* Properties of errors inside a tick (checked under SpecSched).           *)
(***************************************************************************)

\* The mailings due at poll time for which the step made no dispatch (no
\* new attempt row).
NotDispatched == {id \in DueSet(db, now) : ~\E a \in attempts' \ attempts : a.mailing = id}

C30_Scan(p) ==
    (tick[p].pc = "scan" /\ tick'[p].pc # "scan" /\ tick'[p].raised # "none") =>
        Cardinality(NotDispatched) <= 1

C30_ScanStep == \A p \in Procs : C30_Scan(p)

====
